---- MODULE Spec2Model ----
(***************************************************************************)
(* Model of the moleculer-graphql gateway: the GraphQLGateway class of     *)
(* src/src/Gateway/createRemoteSchema.js (event handlers, remote build,    *)
(* rebuild policy, start/stop) together with getRelatedTypes of            *)
(* src/unnamed/part_001.                                                   *)
(*                                                                         *)
(* JavaScript arrays are sequences, JavaScript objects are sequences of    *)
(* <<key, value>> pairs in insertion order.  Schema and relationship       *)
(* texts are opaque strings; Parse gives the document of a text.           *)
(***************************************************************************)
EXTENDS Integers, Sequences, FiniteSets, TLC

VARIABLES
    connectedServices,      \* this.connectedServices: records in key order
    requiredGraphQLTypes,   \* this.requiredGraphQLTypes
    discoveredGraphQLTypes, \* this.discoveredGraphQLTypes
    schema,                 \* this.schema
    brokerStarted,          \* this.broker._started
    settings,               \* this.settings
    pending,                \* createRemoteSchema calls in flight
    waiter,                 \* the running start() call
    events,                 \* events and calls the gateway has received
    last                    \* what the last handled step did

vars == <<connectedServices, requiredGraphQLTypes, discoveredGraphQLTypes,
          schema, brokerStarted, settings, pending, waiter, events, last>>

gatewayState == <<connectedServices, requiredGraphQLTypes,
                  discoveredGraphQLTypes, schema>>

----------------------------------------------------------------------------
(* Bounds of the model *)

MaxPending == 1
MaxEvents == 5
WaitTimeout == 1
WaitInterval == 1
MaxJitter == 1
MaxFields == 3
MaxDefs == 2
MaxExtFields == 2
MaxScanned == 2
MaxBeforeScan == 1
MaxSeconds == 2
MaxNanoSteps == 40
MaxTicks == 4

----------------------------------------------------------------------------
(* Generic helpers for arrays and objects *)

Range(s) == {s[i] : i \in 1..Len(s)}

Undefined == "undefined"

\* lodash difference(array, values): the elements of array that are not in
\* values, in order, duplicates of array kept
difference(array, values) ==
    SelectSeq(array, LAMBDA x : x \notin Range(values))

concatDifference(source, target) ==
    LET diff == difference(target, source)
    IN  source \o diff

\* a JavaScript object value (its entries in insertion order) or undefined
Object(entries) == [defined |-> TRUE, entries |-> entries]
UndefinedObject == [defined |-> FALSE, entries |-> << >>]

Keys(obj) == [i \in 1..Len(obj.entries) |-> obj.entries[i][1]]

Get(obj, k) ==
    LET i == CHOOSE i \in 1..Len(obj.entries) : obj.entries[i][1] = k
    IN  obj.entries[i][2]

\* lodash isEqual on two plain objects (or undefined): same keys, equal
\* values, whatever the key order
isEqual(a, b) ==
    IF ~a.defined \/ ~b.defined
    THEN a.defined = b.defined
    ELSE /\ Len(a.entries) = Len(b.entries)
         /\ Range(Keys(a)) = Range(Keys(b))
         /\ \A k \in Range(Keys(a)) : Get(a, k) = Get(b, k)

\* computeTimeDiff on elapsed = process.hrtime(start), a pair of seconds and
\* nanoseconds; toFixed(0) rounds to the nearest integer
computeTimeDiff(elapsed) ==
    LET wholeMillis == (elapsed[2] + 500000) \div 1000000
    IN  (elapsed[1] * 1000000) + wholeMillis

----------------------------------------------------------------------------
(* GraphQL documents *)

Named(n) == [kind |-> "NamedType", name |-> n]
List(t) == [kind |-> "ListType", type |-> t]
NonNull(t) == [kind |-> "NonNullType", type |-> t]

Field(n, t) == [name |-> n, type |-> t]

ObjectType(n, fs) ==
    [kind |-> "ObjectTypeDefinition", name |-> n, fields |-> fs]
InputType(n, fs) ==
    [kind |-> "InputObjectTypeDefinition", name |-> n, fields |-> fs]
Extension(n, fs) ==
    [kind |-> "TypeExtensionDefinition",
     definition |-> [kind |-> "ObjectTypeDefinition", name |-> n, fields |-> fs]]

\* graphql parse(): the document (its definitions) of each text the
\* services of the model announce
Parse(text) ==
    CASE text = "AuthorSchema" ->
            << ObjectType("Author", << Field("id", Named("Int")) >>),
               ObjectType("Query", << Field("author", Named("Author")),
                                      Field("authors", List(Named("Author"))) >>),
               ObjectType("UpdateAuthorPayload",
                          << Field("author", Named("Author")) >>),
               ObjectType("Mutation",
                          << Field("updateAuthor", Named("UpdateAuthorPayload")) >>) >>
      [] text = "BookSchema" ->
            << ObjectType("Book", << Field("id", Named("Int")) >>),
               ObjectType("Query", << Field("book", Named("Book")),
                                      Field("books", List(Named("Book"))) >>),
               InputType("UpdateBookInput", << Field("id", NonNull(Named("Int"))) >>),
               ObjectType("UpdateBookPayload", << Field("book", Named("Book")) >>),
               ObjectType("Mutation",
                          << Field("updateBook", Named("UpdateBookPayload")) >>) >>
      [] text = "BookSchemaV2" ->
            << ObjectType("Book", << Field("id", Named("Int")) >>),
               ObjectType("Query", << Field("books", List(Named("Book"))),
                                      Field("book", Named("Book")) >>) >>
      [] text = "BookRel" ->
            << Extension("Book", << Field("author", Named("Author")),
                                    Field("coauthors",
                                          NonNull(List(Named("Author")))) >>) >>
      [] text = "AuthorRel" ->
            << Extension("Author", << Field("books", List(Named("Book"))) >>) >>
      [] OTHER -> << >>

RECURSIVE getNamedTypeNode(_)
getNamedTypeNode(typeNode) ==
    IF typeNode.kind = "ListType" \/ typeNode.kind = "NonNullType"
    THEN getNamedTypeNode(typeNode.type)
    ELSE typeNode

RECURSIVE FlatMapFields(_)
FlatMapFields(definitions) ==
    IF definitions = << >>
    THEN << >>
    ELSE LET definition == Head(definitions)
         IN  (IF definition.kind = "TypeExtensionDefinition"
              THEN [i \in 1..Len(definition.definition.fields) |->
                      getNamedTypeNode(definition.definition.fields[i].type).name]
              ELSE << >>)
             \o FlatMapFields(Tail(definitions))

getRelatedTypes(documentNode) == FlatMapFields(documentNode)

\* the filter/map of buildRemoteSchema and removeExecutableSchema: the names
\* of the object types of a schema text other than Mutation and Query
definedTypes(schemaText) ==
    LET defs == SelectSeq(Parse(schemaText), LAMBDA d :
                    /\ d.kind = "ObjectTypeDefinition"
                    /\ d.name \notin {"Mutation", "Query"})
    IN  [i \in 1..Len(defs) |-> defs[i].name]

----------------------------------------------------------------------------
(* The services of the model and what they announce *)

Services == {"Author", "Book"}

BookDefs ==
    Object(<< <<"coauthors", [type |-> "query", operationName |-> "authorsOf",
                              args |-> "bookId=parent.id"]>>,
              <<"author", [type |-> "query", operationName |-> "author",
                           args |-> "id=parent.authorId"]>> >>)

\* the same object written with its keys in the other order
BookDefsReordered == Object(<< BookDefs.entries[2], BookDefs.entries[1] >>)

RemoteSchemaDef(name, schemaText, rel, defs) ==
    [serviceName |-> name, schema |-> schemaText, relationships |-> rel,
     relationDefinitions |-> defs]

\* the payloads of graphqlService.connected / graphqlService.disconnected
Announcements ==
    { RemoteSchemaDef("Author", "AuthorSchema", Undefined, UndefinedObject),
      RemoteSchemaDef("Book", "BookSchema", "BookRel", BookDefs),
      RemoteSchemaDef("Book", "BookSchema", "BookRel", BookDefsReordered),
      RemoteSchemaDef("Book", "BookSchemaV2", "BookRel", BookDefs) }

\* relationDefinitions with another value under a key, and with a key less
BookDefsOther ==
    Object(<< BookDefs.entries[1],
              <<"author", [type |-> "query", operationName |-> "authorById",
                           args |-> "id=parent.authorId"]>> >>)

BookDefsFewer == Object(<< BookDefs.entries[2] >>)

\* every combination of schema, relationships and relationDefinitions a
\* Book service can announce, next to the Author service
WideAnnouncements ==
    { RemoteSchemaDef("Author", "AuthorSchema", Undefined, UndefinedObject) }
    \cup { RemoteSchemaDef("Book", sch, rel, defs) :
              sch \in {"BookSchema", "BookSchemaV2"},
              rel \in {"BookRel", Undefined},
              defs \in {BookDefs, BookDefsReordered, BookDefsOther,
                        BookDefsFewer, UndefinedObject} }

----------------------------------------------------------------------------
(* this.connectedServices: an object keyed by service name *)

HasService(cs, name) == \E i \in 1..Len(cs) : cs[i].serviceName = name

IndexOf(cs, name) == CHOOSE i \in 1..Len(cs) : cs[i].serviceName = name

Service(cs, name) == cs[IndexOf(cs, name)]

\* connectedServices[serviceName] = remoteSchemaDef: an existing key keeps
\* its place, a new key goes last; the stored object has no
\* remoteExecutableSchema yet
SetService(cs, def) ==
    LET rec == [serviceName |-> def.serviceName, schema |-> def.schema,
                relationships |-> def.relationships,
                relationDefinitions |-> def.relationDefinitions,
                remoteExecutableSchema |-> Undefined]
    IN  IF HasService(cs, def.serviceName)
        THEN [cs EXCEPT ![IndexOf(cs, def.serviceName)] = rec]
        ELSE Append(cs, rec)

\* delete connectedServices[serviceName]
DeleteService(cs, name) == SelectSeq(cs, LAMBDA r : r.serviceName # name)

SetRemoteExecutableSchema(cs, name, remote) ==
    [cs EXCEPT ![IndexOf(cs, name)].remoteExecutableSchema = remote]

getConnectedServiceNames(cs) ==
    LET built == SelectSeq(cs, LAMBDA r : r.remoteExecutableSchema # Undefined)
    IN  [i \in 1..Len(built) |-> built[i].serviceName]

\* Changed, comparing relationDefinitions as serialized text
Changed_ByJson(cs, def) ==
    IF HasService(cs, def.serviceName)
    THEN LET currentDefinition == Service(cs, def.serviceName)
         IN  \/ def.schema # currentDefinition.schema
             \/ def.relationships # currentDefinition.relationships
             \/ def.relationDefinitions # currentDefinition.relationDefinitions
    ELSE TRUE

\* Changed, stopping at the relationships
Changed_WithoutDefinitions(cs, def) ==
    IF HasService(cs, def.serviceName)
    THEN LET currentDefinition == Service(cs, def.serviceName)
         IN  \/ def.schema # currentDefinition.schema
             \/ def.relationships # currentDefinition.relationships
    ELSE TRUE

\* the comparison of handleServiceConnected: TRUE when the announcement is
\* for a new service or differs from the stored definition
Changed(cs, def) ==
    IF HasService(cs, def.serviceName)
    THEN LET currentDefinition == Service(cs, def.serviceName)
         IN  \/ def.schema # currentDefinition.schema
             \/ def.relationships # currentDefinition.relationships
             \/ ~isEqual(def.relationDefinitions,
                         currentDefinition.relationDefinitions)
    ELSE TRUE

----------------------------------------------------------------------------
(* Composition: generateSchema, mergeSchemas, alphabetizeSchema *)

NullSchema == [null |-> TRUE]

\* the field names of the root type `root` of a schema text, in source order
RootFields(schemaText, root) ==
    LET defs == SelectSeq(Parse(schemaText), LAMBDA d :
                    d.kind = "ObjectTypeDefinition" /\ d.name = root)
    IN  IF defs = << >>
        THEN << >>
        ELSE [i \in 1..Len(defs[1].fields) |-> defs[1].fields[i].name]

\* every type name a schema text defines
TypeNames(schemaText) ==
    {Parse(schemaText)[i].name : i \in 1..Len(Parse(schemaText))}

BuiltinScalars == {"Int", "Float", "String", "Boolean", "ID"}

RECURSIVE ConcatAll(_)
ConcatAll(seqs) ==
    IF seqs = << >> THEN << >> ELSE Head(seqs) \o ConcatAll(Tail(seqs))

\* the fields of the root type `root` of a schema text as the entries
\* <<name, field>> of its field map
RootFieldMap(schemaText, root) ==
    LET defs == SelectSeq(Parse(schemaText), LAMBDA d :
                    d.kind = "ObjectTypeDefinition" /\ d.name = root)
    IN  IF defs = << >>
        THEN << >>
        ELSE [i \in 1..Len(defs[1].fields) |->
                 <<defs[1].fields[i].name, defs[1].fields[i]>>]

\* the entries of an object that is assigned the entries of s one by one: a
\* key that is already there keeps its place and takes the new value
RECURSIVE Assign(_, _)
Assign(acc, s) ==
    IF s = << >>
    THEN acc
    ELSE LET e == Head(s)
             at == {i \in 1..Len(acc) : acc[i][1] = e[1]}
         IN  Assign(IF at = {} THEN Append(acc, e)
                    ELSE [acc EXCEPT ![CHOOSE i \in at : TRUE] = e],
                    Tail(s))

\* the keys of an object that receives the keys of s one by one: a key that
\* is already there keeps its place
RECURSIVE KeyOrder(_, _)
KeyOrder(acc, s) ==
    IF s = << >>
    THEN acc
    ELSE KeyOrder(IF Head(s) \in Range(acc) THEN acc ELSE Append(acc, Head(s)),
                  Tail(s))

\* graphql-tools mergeSchemas rejects type extensions that extend or
\* reference a type none of the merged schemas defines, and a merge that has
\* no Query field
MergeThrows(remoteSchemas, relationshipSchemas) ==
    LET known == UNION {TypeNames(remoteSchemas[i]) : i \in 1..Len(remoteSchemas)}
        exts  == ConcatAll([i \in 1..Len(relationshipSchemas) |->
                              Parse(relationshipSchemas[i])])
    IN  \/ remoteSchemas = << >>
        \/ \E i \in 1..Len(exts) :
              \/ exts[i].definition.name \notin known
              \/ \E j \in 1..Len(exts[i].definition.fields) :
                    getNamedTypeNode(exts[i].definition.fields[j].type).name
                        \notin known \cup BuiltinScalars

mergeSchemas(remoteSchemas, relationshipSchemas, resolvers) ==
    [null |-> FALSE,
     remoteSchemas |-> remoteSchemas,
     relationshipSchemas |-> relationshipSchemas,
     resolvers |-> resolvers,
     queryType |-> Object(Assign(<< >>, ConcatAll([i \in 1..Len(remoteSchemas) |->
                        RootFieldMap(remoteSchemas[i], "Query")]))),
     mutationFields |-> KeyOrder(<< >>, ConcatAll([i \in 1..Len(remoteSchemas) |->
                        RootFields(remoteSchemas[i], "Mutation")]))]

\* the field names of the model in the order of Array.prototype.sort
SortedFieldNames ==
    << "author", "authors", "book", "books", "updateAuthor", "updateBook" >>

Rank(name) == CHOOSE i \in 1..Len(SortedFieldNames) : SortedFieldNames[i] = name

\* alphabetizeSchema with every value left at its old position
alphabetizeSchema_KeysOnly(merged) ==
    LET fields    == merged.queryType
        unordered == Keys(fields)
        ordered   == SortSeq(unordered, LAMBDA a, b : Rank(a) < Rank(b))
    IN  IF unordered # ordered
        THEN [merged EXCEPT !.queryType =
                 Object([i \in 1..Len(ordered) |->
                            <<ordered[i], fields.entries[i][2]>>])]
        ELSE merged

alphabetizeSchema(merged) ==
    LET fields    == merged.queryType
        unordered == Keys(fields)
        ordered   == SortSeq(unordered, LAMBDA a, b : Rank(a) < Rank(b))
    IN  IF unordered # ordered
        THEN [merged EXCEPT !.queryType =
                 Object([i \in 1..Len(ordered) |->
                            <<ordered[i], Get(fields, ordered[i])>>])]
        ELSE merged

\* the field names of the type named t in a schema text, in source order
FieldsOf(schemaText, t) ==
    LET defs == SelectSeq(Parse(schemaText), LAMBDA d : d.name = t)
    IN  IF defs = << >>
        THEN << >>
        ELSE [i \in 1..Len(defs[1].fields) |-> defs[1].fields[i].name]

\* the fields of type t in a composite schema: the merged root fields for
\* Query and Mutation, else the fields of the type followed by the fields
\* the relationship fragments add to it, in the order they were merged
TypeFields(merged, t) ==
    LET own == ConcatAll([i \in 1..Len(merged.remoteSchemas) |->
                            FieldsOf(merged.remoteSchemas[i], t)])
        exts == ConcatAll([i \in 1..Len(merged.relationshipSchemas) |->
                             Parse(merged.relationshipSchemas[i])])
        mine == SelectSeq(exts, LAMBDA e : e.definition.name = t)
        added == ConcatAll([i \in 1..Len(mine) |->
                              [j \in 1..Len(mine[i].definition.fields) |->
                                  mine[i].definition.fields[j].name]])
    IN  IF t = "Query" THEN Keys(merged.queryType)
        ELSE IF t = "Mutation" THEN merged.mutationFields
        ELSE KeyOrder(<< >>, own \o added)

\* graphql printSchema: the types in the order of their names, each with its
\* fields in the order of its field map
printSchema(merged) ==
    LET types == UNION {TypeNames(merged.remoteSchemas[i]) :
                           i \in 1..Len(merged.remoteSchemas)}
    IN  [t \in types |-> TypeFields(merged, t)]

\* this.generateSnapshot, the property generateSchema tests: the options of
\* the constructor go to this.settings, and nothing assigns this property
generateSnapshot == Undefined

\* generateSchema taking the relation definitions of every registered
\* service, built or not
generateSchema_AllDefinitions(cs) ==
    LET names == getConnectedServiceNames(cs)
        recs  == [i \in 1..Len(names) |-> Service(cs, names[i])]
        remoteSchemas == [i \in 1..Len(recs) |-> recs[i].remoteExecutableSchema]
        withRel  == SelectSeq(recs, LAMBDA r : r.relationships # Undefined)
        withDefs == SelectSeq(cs, LAMBDA r : r.relationDefinitions.defined)
        relationshipSchemas == [i \in 1..Len(withRel) |-> withRel[i].relationships]
        relationDefinitions ==
            [i \in 1..Len(withDefs) |->
               <<withDefs[i].serviceName, withDefs[i].relationDefinitions>>]
    IN  IF MergeThrows(remoteSchemas, relationshipSchemas)
        THEN [throws |-> TRUE, schema |-> NullSchema, snapshot |-> FALSE]
        ELSE [throws |-> FALSE,
              schema |-> alphabetizeSchema(
                  mergeSchemas(remoteSchemas, relationshipSchemas,
                               relationDefinitions)),
              snapshot |-> generateSnapshot # Undefined]

\* generateSchema installing the merged schema without the ordering pass
generateSchema_Unordered(cs) ==
    LET names == getConnectedServiceNames(cs)
        recs  == [i \in 1..Len(names) |-> Service(cs, names[i])]
        remoteSchemas == [i \in 1..Len(recs) |-> recs[i].remoteExecutableSchema]
        withRel  == SelectSeq(recs, LAMBDA r : r.relationships # Undefined)
        withDefs == SelectSeq(recs, LAMBDA r : r.relationDefinitions.defined)
        relationshipSchemas == [i \in 1..Len(withRel) |-> withRel[i].relationships]
        relationDefinitions ==
            [i \in 1..Len(withDefs) |->
               <<withDefs[i].serviceName, withDefs[i].relationDefinitions>>]
    IN  IF MergeThrows(remoteSchemas, relationshipSchemas)
        THEN [throws |-> TRUE, schema |-> NullSchema, snapshot |-> FALSE]
        ELSE [throws |-> FALSE,
              schema |-> mergeSchemas(remoteSchemas, relationshipSchemas,
                                      relationDefinitions),
              snapshot |-> generateSnapshot # Undefined]

\* generateSchema: [throws, schema, snapshot], schema being the value of
\* this.schema when it returns normally and snapshot telling whether
\* recordSnapshot has written the file
generateSchema(cs) ==
    LET names == getConnectedServiceNames(cs)
        recs  == [i \in 1..Len(names) |-> Service(cs, names[i])]
        remoteSchemas == [i \in 1..Len(recs) |-> recs[i].remoteExecutableSchema]
        withRel  == SelectSeq(recs, LAMBDA r : r.relationships # Undefined)
        withDefs == SelectSeq(recs, LAMBDA r : r.relationDefinitions.defined)
        relationshipSchemas == [i \in 1..Len(withRel) |-> withRel[i].relationships]
        relationDefinitions ==
            [i \in 1..Len(withDefs) |->
               <<withDefs[i].serviceName, withDefs[i].relationDefinitions>>]
    IN  IF MergeThrows(remoteSchemas, relationshipSchemas)
        THEN [throws |-> TRUE, schema |-> NullSchema, snapshot |-> FALSE]
        ELSE [throws |-> FALSE,
              schema |-> alphabetizeSchema(
                  mergeSchemas(remoteSchemas, relationshipSchemas,
                               relationDefinitions)),
              snapshot |-> generateSnapshot # Undefined]

\* rebuildSchema without the test of this.schema
rebuildSchema_WithoutSchema(cs, req, disc, sch) ==
    LET required == difference(req, disc)
    IN  IF Len(required) > 0
        THEN [schema |-> sch, rebuild |-> "deferred", warned |-> required]
        ELSE LET g == generateSchema(cs)
             IN  IF g.throws
                 THEN [schema |-> sch, rebuild |-> "failed", warned |-> << >>]
                 ELSE [schema |-> g.schema, rebuild |-> "composed",
                       warned |-> << >>]

\* rebuildSchema without the test of the missing types
rebuildSchema_IgnoreMissing(cs, req, disc, sch) ==
    IF ~sch.null
    THEN LET g == generateSchema(cs)
         IN  IF g.throws
             THEN [schema |-> sch, rebuild |-> "failed", warned |-> << >>]
             ELSE [schema |-> g.schema, rebuild |-> "composed", warned |-> << >>]
    ELSE [schema |-> sch, rebuild |-> "skipped", warned |-> << >>]

\* rebuildSchema: the new value of this.schema, what the call did and the
\* types its warning names
rebuildSchema(cs, req, disc, sch) ==
    IF ~sch.null
    THEN LET required == difference(req, disc)
         IN  IF Len(required) > 0
             THEN [schema |-> sch, rebuild |-> "deferred", warned |-> required]
             ELSE LET g == generateSchema(cs)
                  IN  IF g.throws
                      THEN [schema |-> sch, rebuild |-> "failed", warned |-> << >>]
                      ELSE [schema |-> g.schema, rebuild |-> "composed",
                            warned |-> << >>]
    ELSE [schema |-> sch, rebuild |-> "skipped", warned |-> << >>]

----------------------------------------------------------------------------
(* Remote builds in flight.  Each call of handleServiceConnected that goes  *)
(* on to buildRemoteSchema holds its own payload object; `attached` says    *)
(* whether that object is still the one stored in connectedServices.        *)

PendingBuild(def, attached) == [def |-> def, attached |-> attached]

\* the stored object of service `name` is replaced or deleted: the builds in
\* flight for it now hold an object that is no longer in connectedServices
Detach(pend, name) ==
    [i \in 1..Len(pend) |->
        IF pend[i].def.serviceName = name
        THEN PendingBuild(pend[i].def, FALSE)
        ELSE pend[i]]

DetachAll(pend) == [i \in 1..Len(pend) |-> PendingBuild(pend[i].def, FALSE)]

RemoveAt(pend, i) == SubSeq(pend, 1, i - 1) \o SubSeq(pend, i + 1, Len(pend))

----------------------------------------------------------------------------
(* The handlers as functions of the gateway state *)

\* buildRemoteSchema without the related types
buildRemoteSchema_SkipRequired(cs, req, disc, def, attached) ==
    [connectedServices |->
        IF attached
        THEN SetRemoteExecutableSchema(cs, def.serviceName, def.schema)
        ELSE cs,
     discoveredGraphQLTypes |-> concatDifference(disc, definedTypes(def.schema)),
     requiredGraphQLTypes |-> req]

\* buildRemoteSchema after createRemoteSchema has resolved
buildRemoteSchema(cs, req, disc, def, attached) ==
    LET relatedTypes == getRelatedTypes(Parse(def.relationships))
    IN  [connectedServices |->
            IF attached
            THEN SetRemoteExecutableSchema(cs, def.serviceName, def.schema)
            ELSE cs,
         discoveredGraphQLTypes |-> concatDifference(disc, definedTypes(def.schema)),
         requiredGraphQLTypes |->
            IF def.relationships # Undefined
            THEN concatDifference(req, relatedTypes)
            ELSE req]

\* removeExecutableSchema dropping the composite with the service
removeExecutableSchema_NullsSchema(cs, req, disc, sch, def) ==
    [connectedServices |-> DeleteService(cs, def.serviceName),
     requiredGraphQLTypes |-> req,
     discoveredGraphQLTypes |-> difference(disc, definedTypes(def.schema)),
     schema |-> NullSchema, rebuild |-> "skipped", warned |-> << >>]

\* removeExecutableSchema taking the service's related types out of the
\* required ones as well
removeExecutableSchema_ShrinksRequired(cs, req, disc, sch, def) ==
    LET disc2 == difference(disc, definedTypes(def.schema))
        req2  == IF def.relationships # Undefined
                 THEN difference(req, getRelatedTypes(Parse(def.relationships)))
                 ELSE req
        cs2   == DeleteService(cs, def.serviceName)
        r     == rebuildSchema(cs2, req2, disc2, sch)
    IN  [connectedServices |-> cs2,
         requiredGraphQLTypes |-> req2,
         discoveredGraphQLTypes |-> disc2,
         schema |-> r.schema, rebuild |-> r.rebuild, warned |-> r.warned]

removeExecutableSchema(cs, req, disc, sch, def) ==
    LET disc2 == difference(disc, definedTypes(def.schema))
        cs2   == DeleteService(cs, def.serviceName)
        r     == rebuildSchema(cs2, req, disc2, sch)
    IN  [connectedServices |-> cs2,
         requiredGraphQLTypes |-> req,
         discoveredGraphQLTypes |-> disc2,
         schema |-> r.schema, rebuild |-> r.rebuild, warned |-> r.warned]

\* the convergence test without the expected services
shouldRetry_IgnoreExpected(cs, req, disc, expectedServices) ==
    LET names    == getConnectedServiceNames(cs)
        required == difference(req, disc)
    IN  \/ Len(names) = 0
        \/ Len(required) > 0

\* the convergence test with the arguments of the second difference swapped
shouldRetry_SwappedExpected(cs, req, disc, expectedServices) ==
    LET names    == getConnectedServiceNames(cs)
        required == difference(req, disc)
        expected == difference(names, expectedServices)
    IN  \/ Len(names) = 0
        \/ Len(required) > 0
        \/ Len(expected) > 0

\* the convergence test of one start() iteration
shouldRetry(cs, req, disc, expectedServices) ==
    LET names    == getConnectedServiceNames(cs)
        required == difference(req, disc)
        expected == difference(expectedServices, names)
    IN  \/ Len(names) = 0
        \/ Len(required) > 0
        \/ Len(expected) > 0

stop(cs, req, disc, sch) ==
    [connectedServices |-> << >>,
     requiredGraphQLTypes |-> << >>,
     discoveredGraphQLTypes |-> << >>,
     schema |-> sch]

----------------------------------------------------------------------------
(* State machine *)

NoDef == RemoteSchemaDef("-", Undefined, Undefined, UndefinedObject)

Effect(op, def) ==
    [op |-> op, def |-> def, hook |-> FALSE, attached |-> FALSE,
     rebuild |-> "none", warned |-> << >>, error |-> "none",
     totalTime |-> 0, returned |-> NullSchema,
     snapshot |-> FALSE, executed |-> FALSE,
     document |-> << >>, types |-> << >>,
     services |-> << >>, handled |-> << >>,
     elapsed |-> << 0, 0 >>, milliseconds |-> 0,
     replaced |-> << >>]

IdleWaiter == [pc |-> "idle", totalTime |-> 0, compositions |-> 0]

SettingsChoices ==
    [expectedServices : {<< >>, <<"Book">>}, onSchemaDiscovery : {TRUE},
     generateSnapshot : {FALSE}, blacklist : {<<"$node">>}]

Init ==
    /\ connectedServices = << >>
    /\ requiredGraphQLTypes = << >>
    /\ discoveredGraphQLTypes = << >>
    /\ schema = NullSchema
    /\ brokerStarted \in BOOLEAN
    /\ settings \in SettingsChoices
    /\ pending = << >>
    /\ waiter = IdleWaiter
    /\ events = 0
    /\ last = Effect("init", NoDef)

\* one more event or call from outside
Receive ==
    /\ events < MaxEvents
    /\ events' = events + 1

\* events reach the gateway's service while its broker runs
BrokerLive == brokerStarted \/ waiter.pc = "brokerStarting"

\* handleServiceConnected calling the hook before it compares
HandleServiceConnected_HookFirst(def) ==
    /\ BrokerLive
    /\ IF Changed(connectedServices, def)
       THEN /\ Len(pending) < MaxPending
            /\ Receive
            /\ connectedServices' = SetService(connectedServices, def)
            /\ pending' = Append(Detach(pending, def.serviceName),
                                 PendingBuild(def, TRUE))
            /\ last' = [Effect("connected", def) EXCEPT
                           !.hook = settings.onSchemaDiscovery,
                           !.replaced =
                               IF HasService(connectedServices, def.serviceName)
                               THEN << Service(connectedServices,
                                               def.serviceName) >>
                               ELSE << >>]
       ELSE /\ UNCHANGED <<connectedServices, pending, events>>
            /\ last' = [Effect("unchanged", def) EXCEPT
                           !.hook = settings.onSchemaDiscovery]
    /\ UNCHANGED <<requiredGraphQLTypes, discoveredGraphQLTypes, schema,
                   brokerStarted, settings, waiter>>

\* graphqlService.connected, up to the await of createRemoteSchema
HandleServiceConnected(def) ==
    /\ BrokerLive
    /\ IF Changed(connectedServices, def)
       THEN /\ Len(pending) < MaxPending
            /\ Receive
            /\ connectedServices' = SetService(connectedServices, def)
            /\ pending' = Append(Detach(pending, def.serviceName),
                                 PendingBuild(def, TRUE))
            /\ last' = [Effect("connected", def) EXCEPT
                           !.hook = settings.onSchemaDiscovery,
                           !.replaced =
                               IF HasService(connectedServices, def.serviceName)
                               THEN << Service(connectedServices,
                                               def.serviceName) >>
                               ELSE << >>]
       ELSE /\ UNCHANGED <<connectedServices, pending, events>>
            /\ last' = Effect("unchanged", def)
    /\ UNCHANGED <<requiredGraphQLTypes, discoveredGraphQLTypes, schema,
                   brokerStarted, settings, waiter>>

\* the hook called once the remote build has resolved
BuildResolved_CallsHook(i) ==
    /\ LET b == buildRemoteSchema(connectedServices, requiredGraphQLTypes,
                                  discoveredGraphQLTypes, pending[i].def,
                                  pending[i].attached)
           r == rebuildSchema(b.connectedServices, b.requiredGraphQLTypes,
                              b.discoveredGraphQLTypes, schema)
       IN  /\ connectedServices' = b.connectedServices
           /\ requiredGraphQLTypes' = b.requiredGraphQLTypes
           /\ discoveredGraphQLTypes' = b.discoveredGraphQLTypes
           /\ schema' = r.schema
           /\ last' = [Effect("built", pending[i].def) EXCEPT
                          !.attached = pending[i].attached,
                          !.hook = settings.onSchemaDiscovery,
                          !.rebuild = r.rebuild,
                          !.snapshot =
                              /\ r.rebuild = "composed"
                              /\ generateSchema(b.connectedServices).snapshot,
                          !.warned = r.warned,
                          !.error = IF r.rebuild = "failed"
                                    THEN "MergeError" ELSE "none"]
    /\ pending' = RemoveAt(pending, i)
    /\ UNCHANGED <<brokerStarted, settings, waiter, events>>

\* createRemoteSchema resolves: the rest of buildRemoteSchema, then
\* rebuildSchema
BuildResolved(i) ==
    /\ LET b == buildRemoteSchema(connectedServices, requiredGraphQLTypes,
                                  discoveredGraphQLTypes, pending[i].def,
                                  pending[i].attached)
           r == rebuildSchema(b.connectedServices, b.requiredGraphQLTypes,
                              b.discoveredGraphQLTypes, schema)
       IN  /\ connectedServices' = b.connectedServices
           /\ requiredGraphQLTypes' = b.requiredGraphQLTypes
           /\ discoveredGraphQLTypes' = b.discoveredGraphQLTypes
           /\ schema' = r.schema
           /\ last' = [Effect("built", pending[i].def) EXCEPT
                          !.attached = pending[i].attached,
                          !.rebuild = r.rebuild,
                          !.snapshot =
                              /\ r.rebuild = "composed"
                              /\ generateSchema(b.connectedServices).snapshot,
                          !.warned = r.warned,
                          !.error = IF r.rebuild = "failed"
                                    THEN "MergeError" ELSE "none"]
    /\ pending' = RemoveAt(pending, i)
    /\ UNCHANGED <<brokerStarted, settings, waiter, events>>

\* a rejected build taking its service out of the registry
BuildRejected_DropsRecord(i) ==
    /\ pending' = RemoveAt(pending, i)
    /\ connectedServices' =
           DeleteService(connectedServices, pending[i].def.serviceName)
    /\ last' = [Effect("buildFailed", pending[i].def) EXCEPT
                   !.attached = pending[i].attached, !.error = "BuildFailure"]
    /\ UNCHANGED <<requiredGraphQLTypes, discoveredGraphQLTypes, schema,
                   brokerStarted, settings, waiter, events>>

\* createRemoteSchema rejects: handleServiceConnected rejects with it
BuildRejected(i) ==
    /\ pending' = RemoveAt(pending, i)
    /\ last' = [Effect("buildFailed", pending[i].def) EXCEPT
                   !.attached = pending[i].attached, !.error = "BuildFailure"]
    /\ UNCHANGED <<connectedServices, requiredGraphQLTypes,
                   discoveredGraphQLTypes, schema, brokerStarted, settings, waiter,
                   events>>

\* graphqlService.disconnected: a service announces its own definition when
\* it stops
HandleServiceDisconnected(def) ==
    /\ BrokerLive
    /\ Receive
    /\ HasService(connectedServices, def.serviceName)
         => ~Changed(connectedServices, def)
    /\ LET r == removeExecutableSchema(connectedServices, requiredGraphQLTypes,
                                       discoveredGraphQLTypes, schema, def)
       IN  /\ connectedServices' = r.connectedServices
           /\ requiredGraphQLTypes' = r.requiredGraphQLTypes
           /\ discoveredGraphQLTypes' = r.discoveredGraphQLTypes
           /\ schema' = r.schema
           /\ last' = [Effect("disconnected", def) EXCEPT
                          !.rebuild = r.rebuild,
                          !.snapshot =
                              /\ r.rebuild = "composed"
                              /\ generateSchema(r.connectedServices).snapshot,
                          !.warned = r.warned,
                          !.error = IF r.rebuild = "failed"
                                    THEN "MergeError" ELSE "none"]
    /\ pending' = Detach(pending, def.serviceName)
    /\ UNCHANGED <<brokerStarted, settings, waiter>>

\* start() composing at every poll, retried or not
Converge_ComposeAtEveryPoll(t) ==
    LET g == generateSchema(connectedServices)
    IN  IF shouldRetry(connectedServices, requiredGraphQLTypes,
                       discoveredGraphQLTypes, settings.expectedServices)
        THEN /\ waiter' = [pc |-> "waiting", totalTime |-> t, compositions |-> 0]
             /\ last' = [Effect("poll", NoDef) EXCEPT !.totalTime = t]
             /\ schema' = IF g.throws THEN schema ELSE g.schema
        ELSE IF g.throws
             THEN /\ waiter' = [pc |-> "failed", totalTime |-> 0, compositions |-> 1]
                  /\ last' = [Effect("poll", NoDef) EXCEPT
                                 !.totalTime = t,
                                 !.rebuild = "failed", !.error = "MergeError"]
                  /\ UNCHANGED schema
             ELSE /\ schema' = g.schema
                  /\ waiter' = [pc |-> "resolved", totalTime |-> 0, compositions |-> 1]
                  /\ last' = [Effect("poll", NoDef) EXCEPT
                                 !.totalTime = t,
                                 !.rebuild = "composed", !.returned = g.schema,
                                 !.snapshot = g.snapshot]

\* start() from the convergence test on, with totalTime = t
Converge(t) ==
    IF shouldRetry(connectedServices, requiredGraphQLTypes,
                   discoveredGraphQLTypes, settings.expectedServices)
    THEN /\ waiter' = [pc |-> "waiting", totalTime |-> t, compositions |-> 0]
         /\ last' = [Effect("poll", NoDef) EXCEPT
                        !.totalTime = t,
                        !.warned = difference(requiredGraphQLTypes,
                                              discoveredGraphQLTypes)]
         /\ UNCHANGED schema
    ELSE LET g == generateSchema(connectedServices)
         IN  IF g.throws
             THEN /\ waiter' = [pc |-> "failed", totalTime |-> 0, compositions |-> 1]
                  /\ last' = [Effect("poll", NoDef) EXCEPT
                                 !.totalTime = t,
                                 !.rebuild = "failed", !.error = "MergeError"]
                  /\ UNCHANGED schema
             ELSE /\ schema' = g.schema
                  /\ waiter' = [pc |-> "resolved", totalTime |-> 0, compositions |-> 1]
                  /\ last' = [Effect("poll", NoDef) EXCEPT
                                 !.totalTime = t,
                                 !.rebuild = "composed", !.returned = g.schema,
                                 !.snapshot = g.snapshot]

\* one iteration of start(totalTime) that drops the schema when it gives up
Iteration_TimeoutDropsSchema(t) ==
    IF t > WaitTimeout
    THEN /\ waiter' = [pc |-> "timedOut", totalTime |-> 0, compositions |-> 0]
         /\ last' = [Effect("poll", NoDef) EXCEPT
                        !.totalTime = t, !.error = "Timeout"]
         /\ schema' = NullSchema
         /\ UNCHANGED brokerStarted
    ELSE IF ~brokerStarted
         THEN /\ waiter' = [pc |-> "brokerStarting", totalTime |-> t,
                                compositions |-> 0]
              /\ last' = Effect("brokerStart", NoDef)
              /\ UNCHANGED <<schema, brokerStarted>>
         ELSE /\ Converge(t)
              /\ UNCHANGED brokerStarted

\* one iteration of start(totalTime) with the deadline test written >=
Iteration_DeadlineReached(t) ==
    IF t >= WaitTimeout
    THEN /\ waiter' = [pc |-> "timedOut", totalTime |-> 0, compositions |-> 0]
         /\ last' = [Effect("poll", NoDef) EXCEPT
                        !.totalTime = t, !.error = "Timeout"]
         /\ UNCHANGED <<schema, brokerStarted>>
    ELSE IF ~brokerStarted
         THEN /\ waiter' = [pc |-> "brokerStarting", totalTime |-> t,
                                compositions |-> 0]
              /\ last' = Effect("brokerStart", NoDef)
              /\ UNCHANGED <<schema, brokerStarted>>
         ELSE /\ Converge(t)
              /\ UNCHANGED brokerStarted

\* one iteration of start(totalTime) with the convergence test ahead of the
\* deadline test
Iteration_ConvergenceFirst(t) ==
    IF /\ brokerStarted
       /\ ~shouldRetry(connectedServices, requiredGraphQLTypes,
                       discoveredGraphQLTypes, settings.expectedServices)
    THEN /\ Converge(t)
         /\ UNCHANGED brokerStarted
    ELSE IF t > WaitTimeout
    THEN /\ waiter' = [pc |-> "timedOut", totalTime |-> 0, compositions |-> 0]
         /\ last' = [Effect("poll", NoDef) EXCEPT
                        !.totalTime = t, !.error = "Timeout"]
         /\ UNCHANGED <<schema, brokerStarted>>
    ELSE IF ~brokerStarted
         THEN /\ waiter' = [pc |-> "brokerStarting", totalTime |-> t,
                                compositions |-> 0]
              /\ last' = Effect("brokerStart", NoDef)
              /\ UNCHANGED <<schema, brokerStarted>>
         ELSE /\ Converge(t)
              /\ UNCHANGED brokerStarted

\* one iteration of start(totalTime), up to its first suspension
Iteration(t) ==
    IF t > WaitTimeout
    THEN /\ waiter' = [pc |-> "timedOut", totalTime |-> 0, compositions |-> 0]
         /\ last' = [Effect("poll", NoDef) EXCEPT
                        !.totalTime = t, !.error = "Timeout"]
         /\ UNCHANGED <<schema, brokerStarted>>
    ELSE IF ~brokerStarted
         THEN /\ waiter' = [pc |-> "brokerStarting", totalTime |-> t,
                                compositions |-> 0]
              /\ last' = Effect("brokerStart", NoDef)
              /\ UNCHANGED <<schema, brokerStarted>>
         ELSE /\ Converge(t)
              /\ UNCHANGED brokerStarted

\* gateway.start(): called on a gateway that is not running, that is before
\* the first start() has resolved or after stop()
StartCall ==
    /\ \/ waiter.pc \in {"idle", "timedOut", "failed"}
       \/ waiter.pc = "resolved" /\ ~brokerStarted
    /\ Receive
    /\ Iteration(0)
    /\ UNCHANGED <<connectedServices, requiredGraphQLTypes,
                   discoveredGraphQLTypes, settings, pending>>

\* broker.start() resolves inside start()
BrokerStartDone ==
    /\ waiter.pc = "brokerStarting"
    /\ brokerStarted' = TRUE
    /\ Converge(waiter.totalTime)
    /\ UNCHANGED <<connectedServices, requiredGraphQLTypes,
                   discoveredGraphQLTypes, settings, pending, events>>

\* a timer that start() leaves armed when it rejects
StartPoll_AfterTimeout ==
    /\ waiter.pc \in {"waiting", "timedOut"}
    /\ \E jitter \in 0..MaxJitter :
          Iteration(waiter.totalTime + WaitInterval + jitter)
    /\ UNCHANGED <<connectedServices, requiredGraphQLTypes,
                   discoveredGraphQLTypes, settings, pending, events>>

\* waitFor(waitInterval) resolves: start(totalTime + elapsed)
StartPoll ==
    /\ waiter.pc = "waiting"
    /\ \E jitter \in 0..MaxJitter :
          Iteration(waiter.totalTime + WaitInterval + jitter)
    /\ UNCHANGED <<connectedServices, requiredGraphQLTypes,
                   discoveredGraphQLTypes, settings, pending, events>>

\* gateway.stop()
Stop ==
    /\ Receive
    /\ LET r == stop(connectedServices, requiredGraphQLTypes,
                     discoveredGraphQLTypes, schema)
       IN  /\ connectedServices' = r.connectedServices
           /\ requiredGraphQLTypes' = r.requiredGraphQLTypes
           /\ discoveredGraphQLTypes' = r.discoveredGraphQLTypes
           /\ schema' = r.schema
    /\ brokerStarted' = FALSE
    /\ pending' = DetachAll(pending)
    /\ last' = Effect("stop", NoDef)
    /\ UNCHANGED <<settings, waiter>>

Next ==
    \/ \E def \in Announcements : HandleServiceConnected(def)
    \/ \E i \in 1..Len(pending) : BuildResolved(i)
    \/ \E i \in 1..Len(pending) : BuildRejected(i)
    \/ \E def \in Announcements : HandleServiceDisconnected(def)
    \/ StartCall
    \/ BrokerStartDone
    \/ StartPoll
    \/ Stop

Spec == Init /\ [][Next]_vars

\* the graphql action of the gateway service: execute(this.schema, query,
\* ...) whatever this.schema is; what the execution engine makes of a null
\* schema is its own affair, a rejection or a result that carries errors
GraphqlAction ==
    /\ brokerStarted
    /\ \E outcome \in {"EngineThrows", "EngineErrors"} :
          last' = [Effect("graphql", NoDef) EXCEPT
                      !.executed = TRUE,
                      !.returned = schema,
                      !.error = IF schema.null THEN outcome ELSE "none"]
    /\ UNCHANGED <<connectedServices, requiredGraphQLTypes,
                   discoveredGraphQLTypes, schema, brokerStarted, settings,
                   pending, waiter, events>>

\* A gateway constructed with options: snapshots asked for, the Book
\* service blacklisted; its graphql action is called as well
InitOptions ==
    /\ connectedServices = << >>
    /\ requiredGraphQLTypes = << >>
    /\ discoveredGraphQLTypes = << >>
    /\ schema = NullSchema
    /\ brokerStarted \in BOOLEAN
    /\ settings = [expectedServices |-> << >>, onSchemaDiscovery |-> TRUE,
                   generateSnapshot |-> TRUE, blacklist |-> <<"Book">>]
    /\ pending = << >>
    /\ waiter = IdleWaiter
    /\ events = 0
    /\ last = Effect("init", NoDef)

NextOptions ==
    \/ Next
    \/ GraphqlAction

SpecOptions == InitOptions /\ [][NextOptions]_vars

\* The root query field maps alphabetizeSchema is applied to: the fields of
\* the root types of the announced schemas, up to MaxFields of them, in
\* every order of insertion
RootFieldDefs ==
    UNION {Range(RootFieldMap(text, root)) :
              text \in {"AuthorSchema", "BookSchema"},
              root \in {"Query", "Mutation"}}

FieldMaps ==
    UNION {{Object(es) : es \in {e \in [1..n -> RootFieldDefs] :
                                    \A i, j \in 1..n : i # j => e[i][1] # e[j][1]}}
           : n \in 1..MaxFields}

InitAlphabetize ==
    /\ connectedServices = << >>
    /\ requiredGraphQLTypes = << >>
    /\ discoveredGraphQLTypes = << >>
    /\ \E fields \in FieldMaps :
          schema = [mergeSchemas(<< >>, << >>, << >>) EXCEPT !.queryType = fields]
    /\ brokerStarted = FALSE
    /\ settings = [expectedServices |-> << >>, onSchemaDiscovery |-> TRUE,
                   generateSnapshot |-> FALSE, blacklist |-> <<"$node">>]
    /\ pending = << >>
    /\ waiter = IdleWaiter
    /\ events = 0
    /\ last = Effect("init", NoDef)

\* this.schema = this.alphabetizeSchema(this.schema)
Alphabetize ==
    /\ schema' = alphabetizeSchema(schema)
    /\ last' = [Effect("alphabetize", NoDef) EXCEPT !.returned = schema]
    /\ UNCHANGED <<connectedServices, requiredGraphQLTypes,
                   discoveredGraphQLTypes, brokerStarted, settings, pending,
                   waiter, events>>

NextAlphabetize == Alphabetize

SpecAlphabetize == InitAlphabetize /\ [][NextAlphabetize]_vars

\* The relationship documents getRelatedTypes is applied to: up to MaxDefs
\* definitions, type extensions or plain object types of Author and Book,
\* each with up to MaxExtFields fields whose types are an object type or a
\* built-in scalar, bare or wrapped in list and non-null
TypeNodes ==
    UNION {{Named(n), NonNull(List(Named(n)))} : n \in {"Author", "Book", "Int"}}

ExtFieldNames == << "first", "second", "third" >>

FieldLists ==
    UNION {{[i \in 1..n |-> Field(ExtFieldNames[i], ts[i])] :
               ts \in [1..n -> TypeNodes]} : n \in 1..MaxExtFields}

Definitions ==
    UNION {{Extension(t, fs), ObjectType(t, fs)} :
              t \in {"Author", "Book"}, fs \in FieldLists}

RelationshipDocuments ==
    UNION {[1..n -> Definitions] : n \in 1..MaxDefs}

InitRelated ==
    /\ connectedServices = << >>
    /\ requiredGraphQLTypes = << >>
    /\ discoveredGraphQLTypes = << >>
    /\ schema = NullSchema
    /\ brokerStarted = FALSE
    /\ settings = [expectedServices |-> << >>, onSchemaDiscovery |-> TRUE,
                   generateSnapshot |-> FALSE, blacklist |-> <<"$node">>]
    /\ pending = << >>
    /\ waiter = IdleWaiter
    /\ events = 0
    /\ \E documentNode \in RelationshipDocuments :
          last = [Effect("init", NoDef) EXCEPT !.document = documentNode]

\* getRelatedTypes(documentNode)
GetRelatedTypes ==
    /\ last' = [Effect("getRelatedTypes", NoDef) EXCEPT
                   !.document = last.document,
                   !.types = getRelatedTypes(last.document)]
    /\ UNCHANGED <<connectedServices, requiredGraphQLTypes,
                   discoveredGraphQLTypes, schema, brokerStarted, settings,
                   pending, waiter, events>>

NextRelated == GetRelatedTypes

SpecRelated == InitRelated /\ [][NextRelated]_vars

\* An entry of the list $node.services returns: a service of the mixin
\* carries the mixin's settings, any other service has no hasGraphQLSchema
ServiceInfo(name, schemaText, rel, defs, flag) ==
    [name |-> name,
     settings |-> [schema |-> schemaText, relationships |-> rel,
                   relationDefinitions |-> defs, hasGraphQLSchema |-> flag]]

ServiceInfos ==
    { ServiceInfo("Author", "AuthorSchema", Undefined, UndefinedObject, TRUE),
      ServiceInfo("Book", "BookSchema", "BookRel", BookDefs, TRUE),
      ServiceInfo("Book", "BookSchema", "BookRel", BookDefsReordered, TRUE),
      ServiceInfo("$node", Undefined, Undefined, UndefinedObject, FALSE),
      ServiceInfo("gateway", Undefined, Undefined, UndefinedObject, FALSE) }

\* the lists $node.services can return: up to MaxScanned services, each
\* name once
NodeServices ==
    UNION {{l \in [1..n -> ServiceInfos] :
               \A i, j \in 1..n : i # j => l[i].name # l[j].name}
           : n \in 0..MaxScanned}

\* { ...service.settings, serviceName: service.name }
PayloadOf(service) ==
    RemoteSchemaDef(service.name, service.settings.schema,
                    service.settings.relationships,
                    service.settings.relationDefinitions)

\* services.forEach(service => this.handleServiceConnected(...)): every
\* call runs up to its await before the next one starts
RECURSIVE ForEachService(_, _, _)
ForEachService(services, cs, pend) ==
    IF services = << >>
    THEN [connectedServices |-> cs, pending |-> pend, handled |-> << >>,
          hooks |-> << >>]
    ELSE LET def  == PayloadOf(Head(services))
             chg  == Changed(cs, def)
             rest == ForEachService(
                         Tail(services),
                         IF chg THEN SetService(cs, def) ELSE cs,
                         IF chg
                         THEN Append(Detach(pend, def.serviceName),
                                     PendingBuild(def, TRUE))
                         ELSE pend)
         IN  [rest EXCEPT
                 !.handled = << def.serviceName >> \o rest.handled,
                 !.hooks = (IF chg /\ settings.onSchemaDiscovery
                            THEN << def.serviceName >> ELSE << >>) \o rest.hooks]

\* the started hook handing every listed service to handleServiceConnected
Started_WithoutFilter(services) ==
    /\ brokerStarted
    /\ events <= MaxBeforeScan
    /\ Receive
    /\ LET r == ForEachService(services, connectedServices, pending)
       IN  /\ connectedServices' = r.connectedServices
           /\ pending' = r.pending
           /\ last' = [Effect("started", NoDef) EXCEPT
                          !.services = services,
                          !.handled = r.handled,
                          !.hook = r.hooks # << >>]
    /\ UNCHANGED <<requiredGraphQLTypes, discoveredGraphQLTypes, schema,
                   brokerStarted, settings, waiter>>

\* the started hook of the gateway's service
Started(services) ==
    /\ brokerStarted
    /\ events <= MaxBeforeScan
    /\ Receive
    /\ LET graphqlServices ==
               SelectSeq(services, LAMBDA service :
                                       service.settings.hasGraphQLSchema)
           r == ForEachService(graphqlServices, connectedServices, pending)
       IN  /\ connectedServices' = r.connectedServices
           /\ pending' = r.pending
           /\ last' = [Effect("started", NoDef) EXCEPT
                          !.services = services,
                          !.handled = r.handled,
                          !.hook = r.hooks # << >>]
    /\ UNCHANGED <<requiredGraphQLTypes, discoveredGraphQLTypes, schema,
                   brokerStarted, settings, waiter>>

\* The gateway's service starts on a running broker and scans the services
\* of the network, after at most MaxBeforeScan events have reached it, and
\* the broadcasts of the services follow
InitStarted ==
    /\ connectedServices = << >>
    /\ requiredGraphQLTypes = << >>
    /\ discoveredGraphQLTypes = << >>
    /\ schema = NullSchema
    /\ brokerStarted = TRUE
    /\ settings = [expectedServices |-> << >>, onSchemaDiscovery |-> TRUE,
                   generateSnapshot |-> FALSE, blacklist |-> <<"$node">>]
    /\ pending = << >>
    /\ waiter = IdleWaiter
    /\ events = 0
    /\ last = Effect("init", NoDef)

NextStarted ==
    \/ \E services \in NodeServices : Started(services)
    \/ \E def \in Announcements : HandleServiceConnected(def)
    \/ \E i \in 1..Len(pending) : BuildResolved(i)
    \/ \E i \in 1..Len(pending) : BuildRejected(i)

SpecStarted == InitStarted /\ [][NextStarted]_vars

\* The values process.hrtime(start) returns: up to MaxSeconds seconds and a
\* number of nanoseconds just above zero or just below a second, in steps
\* of a quarter of a millisecond
HrTimes ==
    (0..MaxSeconds)
       \X ({k * 250000 : k \in 0..MaxNanoSteps}
              \cup {999999999 - (k * 250000) : k \in 0..MaxNanoSteps})

InitTimeDiff ==
    /\ connectedServices = << >>
    /\ requiredGraphQLTypes = << >>
    /\ discoveredGraphQLTypes = << >>
    /\ schema = NullSchema
    /\ brokerStarted = FALSE
    /\ settings = [expectedServices |-> << >>, onSchemaDiscovery |-> TRUE,
                   generateSnapshot |-> FALSE, blacklist |-> <<"$node">>]
    /\ pending = << >>
    /\ waiter = IdleWaiter
    /\ events = 0
    /\ \E elapsed \in HrTimes :
          last = [Effect("init", NoDef) EXCEPT !.elapsed = elapsed]

\* computeTimeDiff(startTime)
ComputeTimeDiff ==
    /\ last' = [Effect("computeTimeDiff", NoDef) EXCEPT
                   !.elapsed = last.elapsed,
                   !.milliseconds = computeTimeDiff(last.elapsed)]
    /\ UNCHANGED <<connectedServices, requiredGraphQLTypes,
                   discoveredGraphQLTypes, schema, brokerStarted, settings,
                   pending, waiter, events>>

NextTimeDiff == ComputeTimeDiff

SpecTimeDiff == InitTimeDiff /\ [][NextTimeDiff]_vars

----------------------------------------------------------------------------
(* The interval-based gateway of GraphQLGateway.js: connectedServices holds
   the entries of this.remoteSchemas, this.relationships and
   this.relationDefinitions under their type name,
   discoveredGraphQLTypes the keys of this.discoveredTypes and
   requiredGraphQLTypes this.expectedTypes; waiter is the promise and the
   timer of start() *)

IntervalWaiter(pc, tries, timer) == [pc |-> pc, tries |-> tries, timer |-> timer]

\* the services a connecting node carries, their settings
IntervalServices ==
    { RemoteSchemaDef("Author", "AuthorSchema", Undefined, UndefinedObject),
      RemoteSchemaDef("Book", "BookSchema", "BookRel", BookDefs) }

InitInterval ==
    /\ connectedServices = << >>
    /\ discoveredGraphQLTypes = << >>
    /\ schema = NullSchema
    /\ brokerStarted = TRUE
    /\ settings \in [expectedServices : {<< >>, <<"Book">>},
                     onSchemaDiscovery : {TRUE}, generateSnapshot : {FALSE},
                     blacklist : {<<"$node">>}]
    /\ requiredGraphQLTypes = settings.expectedServices
    /\ pending = << >>
    /\ waiter = IntervalWaiter("idle", 0, FALSE)
    /\ events = 0
    /\ last = Effect("init", NoDef)

\* generateSchema of the interval-based gateway
Interval_generateSchema(cs) ==
    LET remoteSchemas == [i \in 1..Len(cs) |-> cs[i].remoteExecutableSchema]
        withRel == SelectSeq(cs, LAMBDA r : r.relationships # Undefined)
        relationships == [i \in 1..Len(withRel) |-> withRel[i].relationships]
        relationDefinitions ==
            [i \in 1..Len(withRel) |->
               <<withRel[i].serviceName, withRel[i].relationDefinitions>>]
    IN  IF MergeThrows(remoteSchemas, relationships)
        THEN [throws |-> TRUE, schema |-> NullSchema]
        ELSE [throws |-> FALSE,
              schema |-> alphabetizeSchema(
                  mergeSchemas(remoteSchemas, relationships,
                               relationDefinitions))]

\* handleNodeConnection for a node with one service, up to the await of
\* createRemoteSchema in buildRemoteSchema
HandleNodeConnection(service) ==
    /\ Len(pending) <= MaxPending
    /\ service.serviceName \notin Range(discoveredGraphQLTypes)
    /\ discoveredGraphQLTypes' =
          Append(discoveredGraphQLTypes, service.serviceName)
    /\ pending' = Append(pending, PendingBuild(service, TRUE))
    /\ last' = Effect("handleNodeConnection", service)
    /\ UNCHANGED <<connectedServices, requiredGraphQLTypes, schema,
                   brokerStarted, settings, waiter, events>>

\* createRemoteSchema resolves: the rest of buildRemoteSchema, the hook and
\* generateSchema; difference(relatedTypes, this.discoveredTypes) compares
\* with an object and keeps every related type
IntervalBuildResolved(i) ==
    LET service == pending[i].def
        built == SetRemoteExecutableSchema(
                     SetService(connectedServices,
                                [service EXCEPT !.relationships = Undefined,
                                                !.relationDefinitions = UndefinedObject]),
                     service.serviceName, service.schema)
        withRel == SetRemoteExecutableSchema(
                       SetService(connectedServices, service),
                       service.serviceName, service.schema)
        cs == IF service.relationships # Undefined THEN withRel ELSE built
        gen == Interval_generateSchema(cs)
    IN  /\ i \in 1..Len(pending)
        /\ connectedServices' = cs
        /\ requiredGraphQLTypes' =
              IF service.relationships # Undefined
              THEN requiredGraphQLTypes
                      \o getRelatedTypes(Parse(service.relationships))
              ELSE requiredGraphQLTypes
        /\ schema' = IF gen.throws THEN schema ELSE gen.schema
        /\ pending' = RemoveAt(pending, i)
        /\ last' = [Effect("buildResolved", service) EXCEPT
                       !.hook = TRUE,
                       !.rebuild = IF gen.throws THEN "failed" ELSE "composed"]
        /\ UNCHANGED <<discoveredGraphQLTypes, brokerStarted, settings,
                       waiter, events>>

\* createRemoteSchema rejects: the handler ends there
IntervalBuildRejected(i) ==
    /\ i \in 1..Len(pending)
    /\ pending' = RemoveAt(pending, i)
    /\ last' = [Effect("buildRejected", pending[i].def) EXCEPT
                   !.error = "createRemoteSchema"]
    /\ UNCHANGED <<connectedServices, requiredGraphQLTypes,
                   discoveredGraphQLTypes, schema, brokerStarted, settings,
                   waiter, events>>

\* start(): the promise is created and the interval timer set
IntervalStart ==
    /\ waiter.pc = "idle"
    /\ waiter' = IntervalWaiter("pending", 0, TRUE)
    /\ last' = Effect("start", NoDef)
    /\ UNCHANGED <<connectedServices, requiredGraphQLTypes,
                   discoveredGraphQLTypes, schema, brokerStarted, settings,
                   pending, events>>

\* one run of the setInterval callback of start(); tries >= maxTries with
\* maxTries = waitTimeout / waitInterval
Tick ==
    LET tries == waiter.tries + 1
        timeout == tries * WaitInterval >= WaitTimeout
        rejected == IF timeout /\ waiter.pc = "pending"
                    THEN "rejected" ELSE waiter.pc
        discoveredTypes == discoveredGraphQLTypes
        undiscovered == difference(requiredGraphQLTypes, discoveredTypes)
        unbuilt == \E k \in 1..Len(discoveredTypes) :
                      ~HasService(connectedServices, discoveredTypes[k])
        gen == Interval_generateSchema(connectedServices)
        effect == [Effect("tick", NoDef) EXCEPT
                      !.error = IF timeout THEN "Timeout" ELSE "none"]
    IN  /\ waiter.timer
        /\ events < MaxTicks
        /\ events' = events + 1
        /\ IF discoveredTypes = << >> \/ unbuilt
           THEN /\ waiter' = IntervalWaiter(rejected, tries, TRUE)
                /\ last' = effect
                /\ UNCHANGED schema
           ELSE IF Len(undiscovered) > 0
           THEN /\ waiter' = IntervalWaiter(rejected, tries, TRUE)
                /\ last' = [effect EXCEPT !.warned = undiscovered]
                /\ UNCHANGED schema
           ELSE IF gen.throws
           THEN /\ waiter' = IntervalWaiter(rejected, tries, FALSE)
                /\ last' = [effect EXCEPT !.rebuild = "failed"]
                /\ UNCHANGED schema
           ELSE /\ waiter' = IntervalWaiter(
                                IF rejected = "pending" THEN "resolved"
                                ELSE rejected, tries, FALSE)
                /\ schema' = gen.schema
                /\ last' = [effect EXCEPT !.rebuild = "composed",
                                          !.returned = gen.schema]
        /\ UNCHANGED <<connectedServices, requiredGraphQLTypes,
                       discoveredGraphQLTypes, brokerStarted, settings,
                       pending>>

NextInterval ==
    \/ \E service \in IntervalServices : HandleNodeConnection(service)
    \/ \E i \in 1..MaxPending + 1 : IntervalBuildResolved(i)
    \/ \E i \in 1..MaxPending + 1 : IntervalBuildRejected(i)
    \/ IntervalStart
    \/ Tick

SpecInterval == InitInterval /\ [][NextInterval]_vars

\* Two services that declare a type of the same name: Book and Library both
\* declare Book, and Author extends its type with a field of that type
AuthorDefs ==
    Object(<< <<"books", [type |-> "query", operationName |-> "booksByAuthor",
                          args |-> "authorId=parent.id"]>> >>)

SharedAnnouncements ==
    { RemoteSchemaDef("Author", "AuthorSchema", "AuthorRel", AuthorDefs),
      RemoteSchemaDef("Book", "BookSchema", Undefined, UndefinedObject),
      RemoteSchemaDef("Library", "BookSchemaV2", Undefined, UndefinedObject) }

InitShared ==
    /\ connectedServices = << >>
    /\ requiredGraphQLTypes = << >>
    /\ discoveredGraphQLTypes = << >>
    /\ schema = NullSchema
    /\ brokerStarted = TRUE
    /\ settings \in SettingsChoices
    /\ pending = << >>
    /\ waiter = IdleWaiter
    /\ events = 0
    /\ last = Effect("init", NoDef)

NextShared ==
    \/ \E def \in SharedAnnouncements : HandleServiceConnected(def)
    \/ \E i \in 1..Len(pending) : BuildResolved(i)
    \/ \E i \in 1..Len(pending) : BuildRejected(i)
    \/ \E def \in SharedAnnouncements : HandleServiceDisconnected(def)
    \/ StartCall
    \/ BrokerStartDone
    \/ StartPoll
    \/ Stop

SpecShared == InitShared /\ [][NextShared]_vars

\* the values of waiter
WaiterStates ==
    [pc : {"idle", "brokerStarting", "waiting", "resolved", "timedOut", "failed"},
     totalTime : 0..WaitTimeout, compositions : {0, 1}]

\* the promise a start() call is suspended on, waitFor(waitInterval) or
\* broker.start(), settles and the call goes on: in these two positions the
\* steps that change waiter are those of StartPoll and BrokerStartDone
AwaitedSettles ==
    /\ waiter.pc \in {"waiting", "brokerStarting"}
    /\ waiter' \in WaiterStates
    /\ waiter' # waiter

\* timers fire and broker.start() returns
FairSpec == Spec /\ WF_waiter(AwaitedSettles)

\* The connected handler alone, over every announcement a service can send
InitChanged ==
    /\ connectedServices = << >>
    /\ requiredGraphQLTypes = << >>
    /\ discoveredGraphQLTypes = << >>
    /\ schema = NullSchema
    /\ brokerStarted = TRUE
    /\ settings = [expectedServices |-> << >>, onSchemaDiscovery |-> TRUE,
                   generateSnapshot |-> FALSE, blacklist |-> <<"$node">>]
    /\ pending = << >>
    /\ waiter = IdleWaiter
    /\ events = 0
    /\ last = Effect("init", NoDef)

NextChanged ==
    \/ \E def \in WideAnnouncements : HandleServiceConnected(def)
    \/ \E i \in 1..Len(pending) : BuildResolved(i)
    \/ \E i \in 1..Len(pending) : BuildRejected(i)

SpecChanged == InitChanged /\ [][NextChanged]_vars

----------------------------------------------------------------------------
(* Vocabulary of the properties, written on sets and independently of the   *)
(* operators above                                                          *)

Registered(cs) == {cs[i] : i \in 1..Len(cs)}

Built(cs) == {r \in Registered(cs) : r.remoteExecutableSchema # Undefined}

RegisteredNames(cs) == {r.serviceName : r \in Registered(cs)}

BuiltNames(cs) == {r.serviceName : r \in Built(cs)}

\* the object types a schema text declares, the root operation types apart
PrimaryTypeNames(schemaText) ==
    {d.name : d \in {x \in Range(Parse(schemaText)) :
                        x.kind = "ObjectTypeDefinition"}} \ {"Query", "Mutation"}

RECURSIVE InnerName(_)
InnerName(t) == IF t.kind = "NamedType" THEN t.name ELSE InnerName(t.type)

\* the type names the type extensions of a relationship text reference
RelatedTypeNames(relText) ==
    UNION { {InnerName(f.type) : f \in Range(x.definition.fields)} :
            x \in {y \in Range(Parse(relText)) :
                      y.kind = "TypeExtensionDefinition"} }

OutstandingOf(req, disc) == Range(req) \ Range(disc)

Outstanding == OutstandingOf(requiredGraphQLTypes, discoveredGraphQLTypes)

\* every handler that was started has run to its end
Quiescent == pending = << >>

\* a JavaScript object as the function from its keys to its values
AsMap(obj) == [k \in Range(Keys(obj)) |-> Get(obj, k)]

\* the announcement carries what the stored definition holds
SameDefinition(def, rec) ==
    /\ def.schema = rec.schema
    /\ def.relationships = rec.relationships
    /\ def.relationDefinitions.defined = rec.relationDefinitions.defined
    /\ AsMap(def.relationDefinitions) = AsMap(rec.relationDefinitions)

----------------------------------------------------------------------------
(* C1 *)

\* C1: whenever every started handler has completed, discoveredGraphQLTypes
\* holds exactly the primary type names of the services that are registered
\* and built
C1_DiscoveredIsUnionOfBuilt ==
    Quiescent =>
        Range(discoveredGraphQLTypes) =
            UNION {PrimaryTypeNames(r.schema) : r \in Built(connectedServices)}

----------------------------------------------------------------------------
(* C2 *)

\* C2 as stated: whenever every started handler has completed,
\* requiredGraphQLTypes holds exactly the types referenced by the
\* relationship fragments of the registered services
C2_RequiredIsUnionOfRegistered ==
    Quiescent =>
        Range(requiredGraphQLTypes) =
            UNION {RelatedTypeNames(r.relationships) :
                   r \in Registered(connectedServices)}

\* C2 (amended): requiredGraphQLTypes contains every type referenced by the
\* relationship fragment of a registered, built service (it is not shrunk
\* when a service leaves or changes), and the types a rebuild reports as
\* missing are exactly required minus discovered
C2_RequiredCoversBuilt ==
    /\ \A r \in Built(connectedServices) :
          RelatedTypeNames(r.relationships) \subseteq Range(requiredGraphQLTypes)
    /\ last.rebuild = "deferred" =>
          /\ Range(last.warned) = Outstanding
          /\ Outstanding # {}

C2_Witness ==
    /\ last.op = "built"
    /\ last.rebuild = "deferred"
    /\ \E r \in Built(connectedServices) : r.relationships # Undefined
    /\ Quiescent

----------------------------------------------------------------------------
(* C3 *)

\* C3: a connected event for a registered service that carries the stored
\* schema, relationships and relationDefinitions starts no build, calls no
\* hook, composes nothing and leaves the registry, both type lists and the
\* schema as they were
C3_UnchangedAnnouncementIsNoOp ==
    [][ ( /\ last'.op \in {"connected", "unchanged"}
          /\ HasService(connectedServices, last'.def.serviceName)
          /\ SameDefinition(last'.def,
                            Service(connectedServices, last'.def.serviceName)) )
        => ( /\ UNCHANGED <<connectedServices, requiredGraphQLTypes,
                            discoveredGraphQLTypes, schema, pending>>
             /\ ~last'.hook
             /\ last'.rebuild = "none" ) ]_vars

C3_Witness ==
    /\ last.op = "unchanged"
    /\ HasService(connectedServices, last.def.serviceName)
    /\ Service(connectedServices, last.def.serviceName).relationDefinitions
          # last.def.relationDefinitions
    /\ ~schema.null

----------------------------------------------------------------------------
(* C4 *)

\* C4: an announcement goes on to the hook and the remote build (Changed)
\* exactly when its service is not registered, or its schema text differs
\* from the stored one, or its relationships text differs, or its
\* relationDefinitions do not hold the same values under the same keys as
\* the stored ones; otherwise the handler returns at once
C4_ChangedIffDefinitionDiffers ==
    [][ last'.op \in {"connected", "unchanged"}
        => LET def  == last'.def
               name == def.serviceName
           IN  (last'.op = "connected")
               <=> \/ name \notin RegisteredNames(connectedServices)
                   \/ \E rec \in Registered(connectedServices) :
                         /\ rec.serviceName = name
                         /\ \/ def.schema # rec.schema
                            \/ def.relationships # rec.relationships
                            \/ def.relationDefinitions.defined
                                 # rec.relationDefinitions.defined
                            \/ AsMap(def.relationDefinitions)
                                 # AsMap(rec.relationDefinitions) ]_vars

\* a registered and built Book service announces relationDefinitions with a
\* key less and is taken as Changed
C4_Witness ==
    /\ last.op = "connected"
    /\ last.def.serviceName = "Book"
    /\ last.def.relationDefinitions = BookDefsFewer
    /\ "Book" \in Range(discoveredGraphQLTypes)
    /\ Service(connectedServices, "Book").remoteExecutableSchema = Undefined

----------------------------------------------------------------------------
(* C5 *)

\* C5 as stated: whenever a remote build has completed and required minus
\* discovered is empty, the handler has composed over the current registry
\* and installed the result, whether or not a schema was installed before
C5_BuildComposesInEveryState ==
    (last.op = "built" /\ Outstanding = {}) =>
        /\ last.rebuild = "composed"
        /\ schema = generateSchema(connectedServices).schema

\* C5 (amended): when a remote build has completed and required minus
\* discovered is empty, the handler runs generateSchema over the current
\* registry only if a schema is already installed, and installs the result
\* unless the merge throws; while no schema is installed it composes nothing
\* and schema stays null
C5_BuildComposesOnceInstalled ==
    [][ ( /\ last'.op = "built"
          /\ OutstandingOf(requiredGraphQLTypes', discoveredGraphQLTypes') = {} )
        => IF schema.null
           THEN /\ last'.rebuild = "skipped"
                /\ schema'.null
           ELSE \/ /\ last'.rebuild = "composed"
                   /\ ~generateSchema(connectedServices').throws
                   /\ schema' = generateSchema(connectedServices').schema
                \/ /\ last'.rebuild = "failed"
                   /\ generateSchema(connectedServices').throws
                   /\ schema' = schema ]_vars

C5_Witness ==
    /\ last.op = "built"
    /\ last.rebuild = "composed"
    /\ BuiltNames(connectedServices) = {"Author", "Book"}
    /\ schema.remoteSchemas # << >>

----------------------------------------------------------------------------
(* C6 *)

----------------------------------------------------------------------------
(* C7 *)

\* the common part of C7, as a step: the disconnected event of a registered
\* service removes its record and its primary types, and keeps the schema
\* when one of these types is required by a service out of `remaining`
C7_DisconnectStep(remaining(_)) ==
    ( /\ last'.op = "disconnected"
      /\ HasService(connectedServices, last'.def.serviceName) )
    => LET name  == last'.def.serviceName
           types == PrimaryTypeNames(Service(connectedServices, name).schema)
       IN  /\ ~HasService(connectedServices', name)
           /\ Range(discoveredGraphQLTypes') \cap types = {}
           /\ \A t \in types :
                 (\E r \in remaining(connectedServices') :
                      t \in RelatedTypeNames(r.relationships))
                 => /\ t \in OutstandingOf(requiredGraphQLTypes',
                                           discoveredGraphQLTypes')
                    /\ schema' = schema

----------------------------------------------------------------------------
(* C8 *)

\* C8: handling a disconnected event adds no type to discoveredGraphQLTypes
\* and removes none from requiredGraphQLTypes, so a non-empty required minus
\* discovered stays non-empty
C8_DisconnectNeverSatisfies ==
    [][ last'.op = "disconnected"
        => /\ Range(discoveredGraphQLTypes') \subseteq Range(discoveredGraphQLTypes)
           /\ requiredGraphQLTypes' = requiredGraphQLTypes
           /\ Outstanding # {} =>
                 OutstandingOf(requiredGraphQLTypes', discoveredGraphQLTypes') # {}
       ]_vars

C8_Witness ==
    /\ last.op = "disconnected"
    /\ last.def.serviceName = "Book"
    /\ Outstanding # {}
    /\ Range(requiredGraphQLTypes) = {"Author"}

----------------------------------------------------------------------------
(* C9 *)

\* the three conditions of convergence
Converged ==
    /\ Built(connectedServices) # {}
    /\ Outstanding = {}
    /\ Range(settings.expectedServices) \subseteq BuiltNames(connectedServices)

\* C9: start() composes and resolves only at a poll at which a built
\* service is registered, required minus discovered is empty and every
\* expected service is registered and built; at any other poll it neither
\* composes nor resolves
C9_StartResolvesOnlyWhenConverged ==
    [][ /\ (waiter'.pc = "resolved" /\ waiter.pc # "resolved")
           => (last'.op = "poll" /\ Converged /\ Converged')
        /\ (last'.op = "poll" /\ ~Converged)
           => /\ waiter'.pc \in {"waiting", "timedOut"}
              /\ last'.rebuild = "none"
              /\ schema' = schema ]_vars

C9_Witness ==
    /\ waiter.pc = "resolved"
    /\ last.op = "poll"
    /\ settings.expectedServices = <<"Book">>
    /\ BuiltNames(connectedServices) = {"Author", "Book"}

----------------------------------------------------------------------------
(* C10 *)

\* C10: a start() call that resolves has composed exactly once, at its last
\* poll and over the registry that poll tested; the schema it returns is
\* the installed one; a poll that retries composes nothing
C10_StartComposesOnce ==
    [][ last'.op = "poll"
        => /\ waiter'.pc = "waiting"
                => /\ schema' = schema
                   /\ last'.rebuild = "none"
                   /\ waiter'.compositions = 0
           /\ waiter'.pc = "resolved"
                => /\ waiter.pc \in {"waiting", "brokerStarting"}
                        => waiter.compositions = 0
                   /\ waiter'.compositions = 1
                   /\ last'.rebuild = "composed"
                   /\ connectedServices' = connectedServices
                   /\ schema' = generateSchema(connectedServices).schema
                   /\ last'.returned = schema' ]_vars

C10_Witness ==
    /\ waiter.pc = "resolved"
    /\ last.op = "poll"
    /\ last.totalTime > 0
    /\ last.returned = schema
    /\ ~schema.null

----------------------------------------------------------------------------
(* C11 *)

\* every required type is a primary type of a registered and built service
RequiredTypesProvided ==
    \A t \in Range(requiredGraphQLTypes) :
        \E r \in Built(connectedServices) : t \in PrimaryTypeNames(r.schema)

\* the services start() waits for are there: one at least, the providers of
\* all required types, and all expected ones, each with its build completed
ServicesArrived ==
    /\ Built(connectedServices) # {}
    /\ RequiredTypesProvided
    /\ Range(settings.expectedServices) \subseteq BuiltNames(connectedServices)

----------------------------------------------------------------------------
(* C12 *)

\* C12: a waiting start() call whose convergence conditions are never met
\* ends, and ends with Timeout: the rejection comes at the first poll that
\* begins with an accumulated time above waitTimeout, which is at most one
\* poll interval after the last poll within the deadline
C12_StartTimesOut ==
    /\ [][ (last'.op = "poll" /\ waiter'.pc = "timedOut")
           => /\ last'.error = "Timeout"
              /\ waiter.pc = "waiting"
              /\ waiter.totalTime <= WaitTimeout
              /\ last'.totalTime > WaitTimeout
              /\ last'.totalTime <= WaitTimeout + WaitInterval + MaxJitter ]_vars
    /\ (waiter.pc = "waiting") ~> (waiter.pc = "timedOut" \/ Converged)

\* no service has connected and start() has rejected with Timeout
C12_Witness ==
    /\ waiter.pc = "timedOut"
    /\ last.op = "poll"
    /\ last.error = "Timeout"
    /\ connectedServices = << >>
    /\ discoveredGraphQLTypes = << >>
    /\ pending = << >>

----------------------------------------------------------------------------
(* C13 *)

----------------------------------------------------------------------------
(* C14 *)

\* C14: every poll that begins with an accumulated time above waitTimeout
\* ends the call with Timeout, without composing; after that the call does
\* nothing more: the next poll is that of a new start() call
C14_TimeoutAborts ==
    [][ /\ (last'.op = "poll" /\ last'.totalTime > WaitTimeout)
           => /\ waiter'.pc = "timedOut"
              /\ last'.error = "Timeout"
              /\ last'.rebuild = "none"
              /\ waiter'.compositions = 0
              /\ schema' = schema
        /\ (waiter.pc = "timedOut" /\ last'.op \in {"poll", "brokerStart"})
           => /\ events' = events + 1
              /\ last'.op = "poll" => last'.totalTime = 0 ]_vars

\* a start() call has polled within the deadline, waited again and then
\* given up
C14_Witness ==
    /\ waiter.pc = "timedOut"
    /\ last.error = "Timeout"
    /\ last.totalTime = WaitTimeout + WaitInterval
    /\ connectedServices # << >>

----------------------------------------------------------------------------
(* C15 *)

\* C15: when stop() has returned, connectedServices, requiredGraphQLTypes
\* and discoveredGraphQLTypes are empty and schema is null
C15_StopClearsEverything ==
    last.op = "stop"
    => /\ connectedServices = << >>
       /\ requiredGraphQLTypes = << >>
       /\ discoveredGraphQLTypes = << >>
       /\ schema.null

----------------------------------------------------------------------------
(* C16 *)

\* C16: when stop() is called while a start() call waits between two polls,
\* that call does not go on: what follows stop() is not a poll of it, nor a
\* broker.start() of it
C16_StopTerminatesWaiter ==
    [][ (last.op = "stop" /\ waiter.pc = "waiting")
        => ~(events' = events /\ last'.op \in {"poll", "brokerStart"}) ]_vars

----------------------------------------------------------------------------
(* C17 *)

\* C17: the graphql action called while schema is null fails with NotReady
\* and does not run the execution engine; called with a schema installed it
\* executes against that schema
C17_QueryBeforeCompositionIsNotReady ==
    last.op = "graphql"
    => IF schema.null
       THEN last.error = "NotReady" /\ ~last.executed
       ELSE last.executed /\ last.returned = schema /\ last.error = "none"

----------------------------------------------------------------------------
(* C18 *)

\* C18: a successful composition, by start() or by a rebuild, writes the
\* snapshot exactly when settings.generateSnapshot is true
C18_SnapshotOnEveryComposition ==
    last.rebuild = "composed" => (last.snapshot <=> settings.generateSnapshot)

----------------------------------------------------------------------------
(* C19 *)

\* C19: a service named in the blacklist of the options is never registered
\* and never built, and none of its types is discovered
C19_BlacklistedServiceIgnored ==
    \A name \in Range(settings.blacklist) :
        /\ name \notin RegisteredNames(connectedServices)
        /\ \A i \in 1..Len(pending) : pending[i].def.serviceName # name
        /\ last.op \in {"connected", "built"} => last.def.serviceName # name

----------------------------------------------------------------------------
(* C20 *)

\* C20 as stated: onSchemaDiscovery is called once for each newly
\* discovered service and at no other time, so every call is for a service
\* that was not registered when its announcement arrived
C20_HookOncePerService ==
    [][ last'.hook
        => last'.def.serviceName \notin RegisteredNames(connectedServices) ]_vars

\* C20 (amended): onSchemaDiscovery is called once, with the announced
\* definition, by every connected event whose announcement is new or
\* Changed (a service not registered, or one whose schema, relationships or
\* relationDefinitions differ from the stored ones) and by nothing else; an
\* announcement equal to the stored definition adds no call
C20_HookOncePerChangedAnnouncement ==
    [][ /\ last'.hook <=> last'.op = "connected"
        /\ last'.op = "connected"
           => LET def  == last'.def
                  name == def.serviceName
              IN  /\ \/ name \notin RegisteredNames(connectedServices)
                     \/ ~SameDefinition(def, Service(connectedServices, name))
                  /\ SameDefinition(def, Service(connectedServices', name))
        /\ ( /\ last'.op \in {"connected", "unchanged"}
             /\ HasService(connectedServices, last'.def.serviceName)
             /\ SameDefinition(last'.def,
                               Service(connectedServices,
                                       last'.def.serviceName)) )
           => ~last'.hook ]_vars

\* the hook is called for Book a second time, when Book announces another
\* schema after its first one has been built
C20_Witness ==
    /\ last.op = "connected"
    /\ last.hook
    /\ last.def.serviceName = "Book"
    /\ last.def.schema = "BookSchemaV2"
    /\ "UpdateBookPayload" \in Range(discoveredGraphQLTypes)

----------------------------------------------------------------------------
(* C21 *)

\* the registries that hold the records of cs in another order of keys: the
\* ones other orders of connection, disconnection and reconnection leave
Reorderings(cs) ==
    {p \in [1..Len(cs) -> Range(cs)] : Range(p) = Range(cs)}

\* C21: the composition of the registry prints the same whatever the order
\* in which its services came to be registered, and the same when it is
\* composed again
C21_CompositionIsDeterministic ==
    LET g == generateSchema(connectedServices)
    IN  ~g.throws
        => \A cs \in Reorderings(connectedServices) :
              LET h == generateSchema(cs)
              IN  /\ ~h.throws
                  /\ printSchema(h.schema) = printSchema(g.schema)

----------------------------------------------------------------------------
(* C22 *)

Ascending(names) ==
    \A i, j \in 1..Len(names) : i < j => Rank(names[i]) < Rank(names[j])

\* C22: alphabetizeSchema returns the schema with the same root query field
\* names, each bound to the field it was bound to, in ascending order of
\* name, changes nothing else, and changes nothing at all when the names
\* were in order already
C22_AlphabetizeSortsQueryFields ==
    [][ last'.op = "alphabetize"
        => LET before == schema.queryType
               after  == schema'.queryType
           IN  /\ last'.returned = schema
               /\ Len(Keys(after)) = Len(Keys(before))
               /\ Range(Keys(after)) = Range(Keys(before))
               /\ \A k \in Range(Keys(before)) : Get(after, k) = Get(before, k)
               /\ Ascending(Keys(after))
               /\ [schema' EXCEPT !.queryType = before] = schema
               /\ Ascending(Keys(before)) => schema' = schema ]_vars

\* books, author, authors has been put in the order author, authors, books
C22_Witness ==
    /\ last.op = "alphabetize"
    /\ Keys(last.returned.queryType) = << "books", "author", "authors" >>
    /\ Keys(schema.queryType) = << "author", "authors", "books" >>
    /\ Get(schema.queryType, "books") = Field("books", List(Named("Book")))

----------------------------------------------------------------------------
(* C23 *)

\* C23: a rejected remote build changes nothing in the registry, the two
\* type lists and the installed schema; the record its connect event stored
\* stays registered without a remoteExecutableSchema, is not among the
\* connected service names and is no input of a composition
C23_BuildFailureIsLocal ==
    [][ last'.op = "buildFailed"
        => /\ UNCHANGED gatewayState
           /\ last'.error = "BuildFailure"
           /\ last'.attached
              => LET name == last'.def.serviceName
                     g    == generateSchema(connectedServices')
                 IN  /\ name \in RegisteredNames(connectedServices')
                     /\ name \notin BuiltNames(connectedServices')
                     /\ SameDefinition(last'.def,
                                       Service(connectedServices', name))
                     /\ name \notin Range(getConnectedServiceNames(
                                              connectedServices'))
                     /\ ~g.throws
                        => /\ last'.def.schema
                                \notin Range(g.schema.remoteSchemas)
                           /\ \A e \in Range(g.schema.resolvers) :
                                 e[1] # name ]_vars

\* Book's build fails while Author is built and a schema is installed
C23_Witness ==
    /\ last.op = "buildFailed"
    /\ last.attached
    /\ last.def.serviceName = "Book"
    /\ "Book" \in RegisteredNames(connectedServices)
    /\ "Author" \in BuiltNames(connectedServices)
    /\ ~schema.null

----------------------------------------------------------------------------
(* C24 *)

\* C24: when the build of a service has failed, the next connected event of
\* that service, announcing the same definition, starts the build again
C24_ReconnectRetriesFailedBuild ==
    [][ ( /\ last.op = "buildFailed"
          /\ last.attached
          /\ last'.op \in {"connected", "unchanged"}
          /\ last'.def = last.def )
        => /\ last'.op = "connected"
           /\ \E i \in 1..Len(pending') :
                 pending'[i] = PendingBuild(last.def, TRUE) ]_vars

----------------------------------------------------------------------------
(* C25 *)

\* C25: between the moment a connected handler stores its record and the
\* end of its build and rebuild, no other connected, disconnected or stop
\* transition and no composing poll of start() acts on the gateway
C25_EventsHandledOneAtATime ==
    [][ pending # << >>
        => /\ last'.op \notin {"connected", "disconnected", "stop"}
           /\ ~(last'.op = "poll" /\ last'.rebuild = "composed") ]_vars

----------------------------------------------------------------------------
(* C26 *)

\* the schema is a whole composition of the registry cs: merged from the
\* remote schemas of exactly the built services and ordered
CompleteCompositionOf(sch, cs) ==
    /\ ~sch.null
    /\ Range(sch.remoteSchemas) = {r.remoteExecutableSchema : r \in Built(cs)}
    /\ Range(Keys(sch.queryType))
         = UNION {Range(RootFields(r.schema, "Query")) : r \in Built(cs)}
    /\ Range(sch.mutationFields)
         = UNION {Range(RootFields(r.schema, "Mutation")) : r \in Built(cs)}
    /\ Ascending(Keys(sch.queryType))

\* C26: the installed schema only ever changes to the whole, ordered result
\* of a composition over the registry of that moment; a composition that
\* fails leaves the installed schema as it was
C26_SchemaInstalledAtomically ==
    [][ /\ schema' # schema
           => /\ last'.rebuild = "composed"
              /\ CompleteCompositionOf(schema', connectedServices')
        /\ last'.rebuild = "composed"
           => CompleteCompositionOf(schema', connectedServices')
        /\ last'.rebuild = "failed" => schema' = schema ]_vars

\* the last service has left: the composition over the empty registry fails
\* and the schema composed before stays installed
C26_Witness ==
    /\ last.op = "disconnected"
    /\ last.rebuild = "failed"
    /\ connectedServices = << >>
    /\ Keys(schema.queryType) = << "author", "authors" >>

----------------------------------------------------------------------------
(* C27 *)

\* C27: the inputs of every composition are the remote schemas, the
\* relationship fragments and the relation definitions of exactly the
\* registered services that are built at that moment
C27_CompositionTakesBuiltServices ==
    [][ last'.rebuild = "composed"
        => LET built == Built(connectedServices')
           IN  /\ Range(schema'.remoteSchemas)
                    = {r.remoteExecutableSchema : r \in built}
               /\ Len(schema'.remoteSchemas) = Cardinality(built)
               /\ Range(schema'.relationshipSchemas)
                    = {r.relationships : r \in built} \ {Undefined}
               /\ Range(schema'.resolvers)
                    = {<<r.serviceName, r.relationDefinitions>> :
                          r \in {b \in built : b.relationDefinitions.defined}} ]_vars

\* a composition made while Book is registered and not built: it holds
\* Author alone
C27_Witness ==
    /\ last.rebuild = "composed"
    /\ "Book" \in RegisteredNames(connectedServices) \ BuiltNames(connectedServices)
    /\ Service(connectedServices, "Book").relationDefinitions.defined
    /\ schema.remoteSchemas = << "AuthorSchema" >>
    /\ schema.relationshipSchemas = << >>

----------------------------------------------------------------------------
(* C28 *)

\* the external types a document's type extensions reference: the innermost
\* named type of every field of every extension, built-in scalars and the
\* extended type left out
ExternalTypes(documentNode) ==
    UNION {{InnerName(d.definition.fields[j].type) :
               j \in 1..Len(d.definition.fields)}
              \ (BuiltinScalars \cup {d.definition.name}) :
           d \in {e \in Range(documentNode) : e.kind = "TypeExtensionDefinition"}}

\* C28: getRelatedTypes returns the external type names the type extensions
\* of the document reference, and no built-in scalar nor the extended type
C28_RelatedTypesAreExternalTypes ==
    last.op = "getRelatedTypes"
        => Range(last.types) = ExternalTypes(last.document)

----------------------------------------------------------------------------
(* C29 *)

\* C29 as stated: the hook is invoked once per newly built service, so at
\* every invocation the service it reports has its remote schema built
C29_HookAfterSuccessfulBuild ==
    [][ last'.hook
        => last'.def.serviceName \in BuiltNames(connectedServices') ]_vars

\* C29 (amended): the hook is invoked by the connected event itself, when it
\* has stored the announced definition and before the remote build has
\* completed: the reported service is registered and not built and its
\* build is in flight; the end of a build, resolved or rejected, invokes
\* nothing, so the service is reported whether its build fails or not
C29_HookBeforeBuild ==
    [][ /\ last'.hook
           => LET name == last'.def.serviceName
              IN  /\ name \in RegisteredNames(connectedServices')
                  /\ name \notin BuiltNames(connectedServices')
                  /\ pending' # << >>
                  /\ pending'[Len(pending')] = PendingBuild(last'.def, TRUE)
        /\ last'.op \in {"built", "buildFailed"} => ~last'.hook
        /\ ( /\ last'.op = "buildFailed"
             /\ last.op = "connected"
             /\ last.def = last'.def )
           => last.hook ]_vars

\* Author is reported while Book is built: Author's own build has only
\* been started
C29_Witness ==
    /\ last.op = "connected"
    /\ last.hook
    /\ last.def.serviceName = "Author"
    /\ "Author" \in RegisteredNames(connectedServices)
                       \ BuiltNames(connectedServices)
    /\ "Book" \in BuiltNames(connectedServices)
    /\ pending = << PendingBuild(last.def, TRUE) >>

----------------------------------------------------------------------------
(* C30 *)

\* what the service broadcasts when it starts
BroadcastOf(service) ==
    RemoteSchemaDef(service.name, service.settings.schema,
                    service.settings.relationships,
                    service.settings.relationDefinitions)

\* C30: the started hook passes every listed service that has
\* hasGraphQLSchema, and no other, to handleServiceConnected, with the
\* service's settings and its name as serviceName; the services so
\* registered are then unchanged for the broadcast that follows, written
\* with its keys in any order
C30_StartedScansConnectedServices ==
    [][ last'.op = "started"
        => LET listed  == Range(last'.services)
               flagged == {sv \in listed : sv.settings.hasGraphQLSchema}
           IN  /\ Range(last'.handled) = {sv.name : sv \in flagged}
               /\ Len(last'.handled) = Cardinality(flagged)
               /\ \A sv \in flagged :
                     /\ sv.name \in RegisteredNames(connectedServices')
                     /\ Service(connectedServices', sv.name).schema
                          = sv.settings.schema
                     /\ Service(connectedServices', sv.name).relationships
                          = sv.settings.relationships
                     /\ AsMap(Service(connectedServices', sv.name)
                                 .relationDefinitions)
                          = AsMap(sv.settings.relationDefinitions)
                     /\ Changed(connectedServices, BroadcastOf(sv))
                        => \E i \in 1..Len(pending') :
                              /\ pending'[i].def.serviceName = sv.name
                              /\ pending'[i].attached
                     /\ ~Changed(connectedServices', BroadcastOf(sv))
               /\ \A sv \in listed \ flagged :
                     sv.name \notin RegisteredNames(connectedServices')
               /\ RegisteredNames(connectedServices')
                    = RegisteredNames(connectedServices)
                         \cup {sv.name : sv \in flagged} ]_vars

\* the scan has found Book and Author, and Book's broadcast, with
\* the keys of its relationDefinitions in the other order, is then unchanged
C30_Witness ==
    /\ last.op = "unchanged"
    /\ last.def = RemoteSchemaDef("Book", "BookSchema", "BookRel", BookDefs)
    /\ RegisteredNames(connectedServices) = {"Author", "Book"}
    /\ Service(connectedServices, "Book").relationDefinitions = BookDefsReordered
    /\ Len(pending) = 2

----------------------------------------------------------------------------
(* C31 *)

\* C31: computeTimeDiff returns the elapsed time in milliseconds, s * 1000
\* plus the nanoseconds in milliseconds, rounded, for every number of
\* seconds s
C31_TimeDiffIsMilliseconds ==
    last.op = "computeTimeDiff"
        => LET s == last.elapsed[1]
               n == last.elapsed[2]
           IN  last.milliseconds = (s * 1000) + ((n + 500000) \div 1000000)

\* C32: in the interval-based start(), once the promise has been rejected
\* with 'Timeout' the interval timer is cleared and no later run of the
\* callback happens (none checks convergence, composes or installs a schema)
C32_TimeoutClearsInterval ==
    [][waiter.pc = "rejected" => (~waiter.timer /\ last'.op # "tick")]_vars

\* the required types no built service of cs defines as a primary type
Unprovided(cs, req) ==
    {t \in Range(req) :
        ~\E r \in Built(cs) : t \in PrimaryTypeNames(r.schema)}

\* C33: whenever generateSchema runs, from start() or from a rebuild, every
\* type of requiredGraphQLTypes is a primary type of a built service, the
\* services the composition takes
C33_CompositionHasEveryProvider ==
    last.rebuild \in {"composed", "failed"}
        => Unprovided(connectedServices, requiredGraphQLTypes) = {}

\* C34: when the build of a service that was disconnected while the build
\* was in flight completes, the service is not registered, none of its
\* primary types is in discoveredGraphQLTypes unless a built service
\* provides it, and the composition of that step, if any, does not hold it
C34_DisconnectDuringBuildLeavesNothing ==
    ( /\ last.op = "built"
      /\ ~last.attached
      /\ ~HasService(connectedServices, last.def.serviceName) )
    => ( /\ last.def.serviceName \notin RegisteredNames(connectedServices)
         /\ (PrimaryTypeNames(last.def.schema)
                 \cap Range(discoveredGraphQLTypes))
               \subseteq UNION {PrimaryTypeNames(r.schema) :
                                  r \in Built(connectedServices)}
         /\ last.rebuild = "composed"
               => last.def.schema \notin Range(schema.remoteSchemas) )

\* C35: a remote build that was in flight when stop() was called does not
\* repopulate connectedServices, requiredGraphQLTypes or
\* discoveredGraphQLTypes and runs no composition when it completes
C35_StopCancelsBuildsInFlight ==
    [][ (last.op = "stop" /\ last'.op = "built")
        => ( /\ UNCHANGED <<connectedServices, requiredGraphQLTypes,
                            discoveredGraphQLTypes>>
             /\ last'.rebuild \in {"none", "skipped"} ) ]_vars

\* C36: when a registered, built service disconnects, every primary type
\* that was in discoveredGraphQLTypes and that a service still registered
\* and built declares as well stays in discoveredGraphQLTypes
C36_SharedTypeSurvivesDisconnect ==
    [][ ( /\ last'.op = "disconnected"
          /\ last'.def.serviceName \in BuiltNames(connectedServices) )
        => \A r \in Built(connectedServices') :
              \A T \in PrimaryTypeNames(r.schema)
                         \cap Range(discoveredGraphQLTypes) :
                 T \in Range(discoveredGraphQLTypes') ]_vars

\* the primary types other announcements of the service declare and the
\* definition def does not
DroppedTypes(def) ==
    UNION {PrimaryTypeNames(a.schema) :
              a \in {x \in Announcements : x.serviceName = def.serviceName}}
       \ PrimaryTypeNames(def.schema)

\* C37: once the build of an announced definition has completed for the
\* registered service, a primary type that the definition no longer declares
\* and no registered service declares is not in discoveredGraphQLTypes
C37_UpdateRemovesDroppedTypes ==
    (last.op = "built" /\ last.attached)
        => \A T \in DroppedTypes(last.def) \cap Range(discoveredGraphQLTypes) :
              \E r \in Registered(connectedServices) :
                 T \in PrimaryTypeNames(r.schema)

\* C38: when the build started by an update of a built service is rejected,
\* the service has the record it had before the update, remote schema
\* included, and its primary types are in discoveredGraphQLTypes
C38_FailedUpdateKeepsBuiltState ==
    [][ ( /\ last.op = "connected"
          /\ last.replaced # << >>
          /\ last.replaced[1].remoteExecutableSchema # Undefined
          /\ last'.op = "buildFailed"
          /\ last'.attached
          /\ last'.def = last.def )
        => ( /\ HasService(connectedServices', last.def.serviceName)
             /\ Service(connectedServices', last.def.serviceName)
                   = last.replaced[1]
             /\ last.def.serviceName
                   \in Range(getConnectedServiceNames(connectedServices'))
             /\ PrimaryTypeNames(last.replaced[1].schema)
                   \subseteq Range(discoveredGraphQLTypes') ) ]_vars

C40_CompositionHasAService ==
    [][ /\ last'.rebuild \in {"composed", "failed"}
           => Built(connectedServices') # {}
        /\ schema' # schema => Built(connectedServices') # {} ]_vars

============================================================================
